---- MODULE Spec2Model ----
(***************************************************************************)
(* A model of the proxy verification engine of src/check.py:               *)
(*   - CheckerThread.check_socks5 / test_proxy_connection and the probes   *)
(*     it calls, as a step-by-step state machine for one input line        *)
(*     (specification Spec);                                               *)
(*   - CheckerThread.run / process_proxy and the MainWindow slots the      *)
(*     signals are connected to, for a batch of lines handled by the       *)
(*     thread pool (specification SpecBatch);                              *)
(*   - the same line checked several times against a network that gives    *)
(*     the same answers (specification SpecRerun);                         *)
(*   - the thread pool on a batch larger than its width, process_proxy     *)
(*     taken as one step (specification SpecPool);                         *)
(*   - one call of CheckerThread.udp_connect_test against every proxy      *)
(*     behaviour on the wire (specification SpecUdp);                      *)
(*   - the main window with its "clear results" button while a batch       *)
(*     runs (specification SpecWindow).                                    *)
(*                                                                         *)
(* Python strings that the code takes apart (input lines, their fields,    *)
(* HTTP bodies) are sequences of one-character strings, so '' is <<>>.     *)
(* Messages the code only passes on are TLA+ strings; the Chinese literals *)
(* of the source are given in English, with the literal in a comment.      *)
(***************************************************************************)
EXTENDS Integers, Sequences, FiniteSets, TLC

\* ------------------------------------------------------------------ bounds
\* Number of input lines of a batch.
NumLines == 2

\* Number of times one line is checked again against the same network.
NumRuns == 2

\* Largest batch handed to the thread pool (more than the pool has threads).
PoolBatch == 6

\* ------------------------------------------------------- program constants
\* check_socks5 calls test_proxy_connection(..., max_retries=3).
max_retries == 3
\* ThreadPoolExecutor(max_workers=5).
max_workers == 5
\* len(test_endpoints).
NumEndpoints == 5

\* ------------------------------------------------------------ Python strings
\* `ch in s`
Contains(s, ch) == \E i \in 1..Len(s) : s[i] = ch

\* Characters str.strip() removes.
Whitespace == {" "}

RECURSIVE LStrip(_)
LStrip(s) ==
    IF s # <<>> /\ Head(s) \in Whitespace THEN LStrip(Tail(s)) ELSE s

RECURSIVE RStrip(_)
RStrip(s) ==
    IF s # <<>> /\ s[Len(s)] \in Whitespace
    THEN RStrip(SubSeq(s, 1, Len(s) - 1))
    ELSE s

\* Faulty variant of Strip: s.lstrip().
Strip_LeftOnly(s) == LStrip(s)

\* s.strip()
Strip(s) == RStrip(LStrip(s))

\* Index of the first occurrence of sep in s (s contains sep).
FirstIndex(s, sep) == CHOOSE i \in 1..Len(s) :
    s[i] = sep /\ \A j \in 1..(i - 1) : s[j] # sep

\* s.split(sep): the fields between the occurrences of sep, empty ones kept.
RECURSIVE Split(_, _)
Split(s, sep) ==
    IF ~Contains(s, sep) THEN <<s>>
    ELSE LET i == FirstIndex(s, sep)
         IN  <<SubSeq(s, 1, i - 1)>> \o Split(SubSeq(s, i + 1, Len(s)), sep)

\* Truthiness of a Python string (None and '' are both false; None is <<>>).
Truthy(s) == s # <<>>

Digits == {"1"}

\* int(s) succeeds: optional surrounding whitespace around decimal digits.
IsIntLiteral(s) ==
    LET t == Strip(s) IN t # <<>> /\ \A i \in 1..Len(t) : t[i] \in Digits

\* ---------------------------------------------------------------- the inputs
\* The input lines checked: both separators, with and without credentials,
\* every field count from 0 to 5, empty fields, a port that is no number,
\* and lines that hold both separators.  (MainWindow.start_check strips every
\* line and drops the empty ones.)
Lines == {
    <<"a", ":", "1">>,
    <<"a", "|", "1">>,
    <<"a", ":", "1", ":", "a", ":", "a">>,
    <<"a", "|", "1", "|", "a", "|", "a">>,
    <<"a", ":", "1", ":", ":", "a">>,
    <<"a", ":", "a">>,
    <<":">>,
    <<"|", "|", "|">>,
    <<"a">>,
    <<"a", ":", "1", ":", "a">>,
    <<"a", ":", "1", ":", "a", ":", "a", ":", "a">>,
    <<"a", "|", "1", "|", "a", ":", "a">>,
    <<"a", "|", "1", ":", "a">>,
    <<"a", ":", "1", "|", "a", ":", "a">> }

\* `'|' in proxy` / `':' in proxy`, then proxy.strip().split(sep); else [].
ParseFields(proxy) ==
    IF Contains(proxy, "|") THEN Split(Strip(proxy), "|")
    ELSE IF Contains(proxy, ":") THEN Split(Strip(proxy), ":")
    ELSE <<>>

\* Faulty variant of FieldCountOk: any line of two or more fields passes.
FieldCountOk_AtLeastTwo(parts) == Len(parts) >= 2

\* The two arities check_socks5 accepts (len(parts) == 4, len(parts) == 2).
FieldCountOk(parts) == Len(parts) = 4 \/ Len(parts) = 2

\* ip, port, user, pwd = parts;  user and pwd default to None (written <<>>).
Endpoint(parts) ==
    [ip   |-> parts[1],
     port |-> parts[2],
     user |-> IF Len(parts) = 4 THEN parts[3] ELSE <<>>,
     pwd  |-> IF Len(parts) = 4 THEN parts[4] ELSE <<>>]

NoEndpoint == [ip |-> <<>>, port |-> <<>>, user |-> <<>>, pwd |-> <<>>]

\* ------------------------------------------------------------- the TCP probe
\* What socket.create_connection does: connects, or raises with this text.
TcpNetOutcomes == {"ok", "timed out", "Connection refused"}

\* tcp_connect_test: (True, '') or (False, str(e)); int(port) may raise first.
tcp_connect_test(ip, port, net) ==
    IF ~IsIntLiteral(port)
    THEN [ok |-> FALSE, msg |-> "invalid literal for int()"]
    ELSE IF net = "ok" THEN [ok |-> TRUE, msg |-> ""]
    ELSE [ok |-> FALSE, msg |-> net]

\* ------------------------------------------------------------- the UDP probe
\* A blocking socket call returns bytes or raises.
Recv(d) == [exc |-> "none", data |-> d]
Raises(e) == [exc |-> e, data |-> <<>>]

\* str.encode() of the characters of the alphabet.
Ord(c) ==
    CASE c = "a" -> 97
      [] c = "1" -> 49
      [] c = "|" -> 124
      [] c = ":" -> 58
      [] OTHER   -> 32

Encode(s) == [i \in 1..Len(s) |-> Ord(s[i])]

AssocReply(rep) == <<5, rep, 0, 1, 0, 0, 0, 0, 0, 0>>

\* Replies of the proxy to the three reads of the probe.
MethodReplies ==
    {Recv(<<5, 0>>), Recv(<<5, 2>>), Recv(<<5, 255>>), Recv(<<4, 0>>),
     Recv(<<5>>), Recv(<<>>), Raises("timeout")}
AuthReplies ==
    {Recv(<<1, 0>>), Recv(<<1, 1>>), Recv(<<0, 0>>), Recv(<<1>>),
     Raises("timeout")}
\* Well-formed replies with every reply code of the table, one on each side
\* of it and 255, and two more that differ in length and in bound address;
\* replies that are too short or of another version; a read that raises.
AssocReplies ==
    {Recv(AssocReply(rep)) : rep \in (0..9) \cup {255}}
    \cup {Recv(<<5, 0, 0, 1, 127, 0, 0, 1, 4, 56>>), Recv(<<5, 2, 0, 1, 0, 0>>),
          Recv(<<5, 0, 0, 1>>), Recv(<<4, 0, 0, 1, 0, 0>>), Recv(<<>>),
          Raises("timeout"), Raises("error")}
ConnectOutcomes == {"ok", "timeout", "refused"}

UdpServers ==
    [connect : ConnectOutcomes, method : MethodReplies,
     auth : AuthReplies, assoc : AssocReplies]

\* The proxies the retry loop is run against: one that refuses, one that never
\* answers, one without UDP support (reply code 0x02), and proxies that accept
\* the association with no authentication or after username/password.
Server(c, m, a, r) == [connect |-> c, method |-> m, auth |-> a, assoc |-> r]
LoopServers ==
    {Server("refused", Recv(<<5, 0>>), Recv(<<1, 0>>), Recv(AssocReply(0))),
     Server("ok", Raises("timeout"), Recv(<<1, 0>>), Recv(AssocReply(0))),
     Server("ok", Recv(<<5, 0>>), Recv(<<1, 0>>), Recv(AssocReply(2))),
     Server("ok", Recv(<<5, 0>>), Recv(<<1, 0>>), Recv(AssocReply(0))),
     Server("ok", Recv(<<5, 2>>), Recv(<<1, 0>>), Recv(AssocReply(0))),
     Server("ok", Recv(<<5, 2>>), Recv(<<1, 1>>), Recv(AssocReply(0)))}

\* Faulty variant of ErrorCodeText: code 0x08 is reported with the reason of
\* code 0x07.
ErrorCodeText_SharedReason(rep) ==
    CASE rep = 1 -> "general SOCKS server failure"
      [] rep = 2 -> "connection not allowed"
      [] rep = 3 -> "network unreachable"
      [] rep = 4 -> "host unreachable"
      [] rep = 5 -> "connection refused"
      [] rep = 6 -> "TTL expired"
      [] rep = 7 -> "command not supported"
      [] rep = 8 -> "command not supported"
      [] OTHER   -> "unknown error code: " \o ToString(rep)

\* error_codes.get(response[1], f"unknown error code: {response[1]}")
ErrorCodeText(rep) ==
    CASE rep = 1 -> "general SOCKS server failure"
      [] rep = 2 -> "connection not allowed"
      [] rep = 3 -> "network unreachable"
      [] rep = 4 -> "host unreachable"
      [] rep = 5 -> "connection refused"
      [] rep = 6 -> "TTL expired"
      [] rep = 7 -> "command not supported"
      [] rep = 8 -> "address type not supported"
      [] OTHER   -> "unknown error code: " \o ToString(rep)

\* Faulty variant of UdpExcept: without the ConnectionRefusedError clause a
\* refusal falls through to the general clause.
UdpExcept_NoRefusedClause(e, sent) ==
    [ok |-> FALSE,
     msg |-> CASE e = "timeout" -> "UDP detection timeout"
               [] OTHER -> "UDP detection exception: " \o e,
     sent |-> sent, closed |-> FALSE]

\* The three except clauses of udp_connect_test; none of them calls
\* sock.close() (closed records whether the probe called it).
UdpExcept(e, sent) ==
    [ok |-> FALSE,
     msg |-> CASE e = "timeout" -> "UDP detection timeout"
               [] e = "refused" -> "connection refused"
               [] OTHER -> "UDP detection exception: " \o e,
     sent |-> sent, closed |-> FALSE]

UdpReturn(ok, msg, sent) ==
    [ok |-> ok, msg |-> msg, sent |-> sent, closed |-> TRUE]

\* Faulty variant of AssocTooShort: only the two bytes that are read are
\* required.
AssocTooShort_TwoBytesSuffice(data) == Len(data) < 2

\* `if len(response) < 6`
AssocTooShort(data) == Len(data) < 6

\* udp_request = b'\x05\x03\x00\x01\x00\x00\x00\x00\x00\x00'
udp_request == <<5, 3, 0, 1, 0, 0, 0, 0, 0, 0>>

\* The UDP ASSOCIATE request and the parse of its reply.
UdpAssociate(sv, sent0) ==
    LET sent == Append(sent0, udp_request)
        response == sv.assoc
    IN  IF response.exc # "none" THEN UdpExcept(response.exc, sent)
        ELSE IF AssocTooShort(response.data)
        THEN UdpReturn(FALSE, "UDP ASSOCIATE response too short", sent)
        ELSE IF response.data[1] # 5
        THEN UdpReturn(FALSE, "invalid SOCKS5 response", sent)
        ELSE IF response.data[2] = 0
        THEN UdpReturn(TRUE, "UDP proxy support confirmed", sent)
        ELSE UdpReturn(FALSE,
                 "UDP ASSOCIATE failed: " \o ErrorCodeText(response.data[2]),
                 sent)

\* Faulty variant of MethodSelection: username/password is always offered.
MethodSelection_AlwaysBoth(user, pwd) == <<5, 2, 0, 2>>

\* auth_methods: b'\x05\x02\x00\x02' `if user and pwd`, else b'\x05\x01\x00'.
MethodSelection(user, pwd) ==
    IF Truthy(user) /\ Truthy(pwd) THEN <<5, 2, 0, 2>> ELSE <<5, 1, 0>>

\* Faulty variant of MethodReplyValid: the version byte is not looked at.
MethodReplyValid_AnyVersion(data) == Len(data) = 2

\* The negation of `len(response) != 2 or response[0] != 0x05`.
MethodReplyValid(data) == Len(data) = 2 /\ data[1] = 5

\* Faulty variant of AuthReplyOk: the status byte is not looked at.
AuthReplyOk_AnyStatus(data) == Len(data) = 2

\* The negation of `len(auth_response) != 2 or auth_response[1] != 0x00`.
AuthReplyOk(data) == Len(data) = 2 /\ data[2] = 0

\* udp_connect_test: connect, method selection, optional username/password
\* subnegotiation, UDP ASSOCIATE.  sv is what the proxy answers.
udp_connect_test(ip, port, user, pwd, sv) ==
    LET auth_methods == MethodSelection(user, pwd)
        auth_request ==
            <<1, Len(user)>> \o Encode(user) \o <<Len(pwd)>> \o Encode(pwd)
        sent1 == <<auth_methods>>
        sent2 == <<auth_methods, auth_request>>
        response == sv.method
        auth_response == sv.auth
    IN  IF ~IsIntLiteral(port) THEN UdpExcept("invalid literal for int()", <<>>)
        ELSE IF sv.connect # "ok" THEN UdpExcept(sv.connect, <<>>)
        ELSE IF response.exc # "none" THEN UdpExcept(response.exc, sent1)
        ELSE IF ~MethodReplyValid(response.data)
        THEN UdpReturn(FALSE, "SOCKS5 handshake failed", sent1)
        ELSE IF response.data[2] = 2
        THEN IF ~Truthy(user) \/ ~Truthy(pwd)
             THEN UdpReturn(FALSE, "username/password required", sent1)
             ELSE IF auth_response.exc # "none"
             THEN UdpExcept(auth_response.exc, sent2)
             ELSE IF ~AuthReplyOk(auth_response.data)
             THEN UdpReturn(FALSE, "username/password authentication failed",
                            sent2)
             ELSE UdpAssociate(sv, sent2)
        ELSE IF response.data[2] = 0 THEN UdpAssociate(sv, sent1)
        ELSE UdpReturn(FALSE,
                 "unsupported authentication method: "
                     \o ToString(response.data[2]),
                 sent1)

\* ---------------------------------------------------------- the egress probe
\* requests.get through the proxy: a response, or an exception.
HttpResponse(code, body) == [exc |-> "none", status_code |-> code, text |-> body]
HttpRaises(e) == [exc |-> e, status_code |-> 0, text |-> <<>>]

HttpOutcomes ==
    {HttpResponse(200, <<"7">>), HttpResponse(200, <<"7", " ">>),
     HttpResponse(503, <<"x">>), HttpRaises("ConnectTimeout")}

\* Faulty variants of IsSuccessResponse: any HTTP response counts as success;
\* the status is compared with the string '200', which no int equals.
IsSuccessResponse_AnyStatus(r) == r.exc = "none"
IsSuccessResponse_StringCompare(r) == FALSE

\* r.status_code == 200 (every endpoint has type 'text').
IsSuccessResponse(r) == r.exc = "none" /\ r.status_code = 200

\* int((time.time() - start) * 1000)
Latencies == {0, 150}

\* ------------------------------------------------------------- the geo lookup
\* What reader.city(ip) gives: it raises, or a record whose localized names
\* ("None" where missing) and subdivisions may be absent.
DbOutcomes ==
    {[raises |-> TRUE, country_zh |-> "None", country_name |-> "None",
      subdivisions |-> FALSE, region_zh |-> "None", region_name |-> "None"],
     [raises |-> FALSE, country_zh |-> "zh:US", country_name |-> "US",
      subdivisions |-> TRUE, region_zh |-> "zh:CA", region_name |-> "CA"],
     [raises |-> FALSE, country_zh |-> "None", country_name |-> "US",
      subdivisions |-> TRUE, region_zh |-> "None", region_name |-> "CA"],
     [raises |-> FALSE, country_zh |-> "zh:US", country_name |-> "US",
      subdivisions |-> FALSE, region_zh |-> "None", region_name |-> "None"]}

\* {'country': '未知', 'region': '未知'}
UnknownLocation == [country |-> "unknown", region |-> "unknown"]

\* self.reader is None when the database could not be opened.
Readers == {"None", "open"}

\* Faulty variant of get_location: a record without subdivisions is treated as
\* a failed lookup.
get_location_SentinelWithoutSubdivision(rdr, ip, db) ==
    IF rdr = "None" \/ db.raises \/ ~db.subdivisions THEN UnknownLocation
    ELSE [country |-> IF db.country_zh # "None" THEN db.country_zh
                      ELSE db.country_name,
          region  |-> IF db.region_zh # "None" THEN db.region_zh
                      ELSE db.region_name]

\* Faulty variant of get_location: `if not self.reader` is not tested and a
\* database is consulted all the same.
get_location_IgnoresReader(rdr, ip, db) ==
    IF db.raises THEN UnknownLocation
    ELSE [country |-> IF db.country_zh # "None" THEN db.country_zh
                      ELSE db.country_name,
          region  |-> IF db.subdivisions
                      THEN IF db.region_zh # "None" THEN db.region_zh
                           ELSE db.region_name
                      ELSE ""]

\* get_location(ip); db is what self.reader.city(ip) would give.
get_location(rdr, ip, db) ==
    IF rdr = "None" THEN UnknownLocation
    ELSE IF db.raises THEN UnknownLocation
    ELSE [country |-> IF db.country_zh # "None" THEN db.country_zh
                      ELSE db.country_name,
          region  |-> IF db.subdivisions
                      THEN IF db.region_zh # "None" THEN db.region_zh
                           ELSE db.region_name
                      ELSE ""]

\* ------------------------------------------------------------- check results
\* latency is '' or an int: '' is <<>> and the int n is <<n>>.
\* Faulty variant of FormatErrorResult: the dict carries no message.
FormatErrorResult_NoMessage(proxy) ==
    [proxy |-> proxy, ok |-> FALSE, ip |-> <<>>, country |-> "unknown",
     region |-> "unknown", latency |-> <<>>, tcp_enabled |-> FALSE,
     udp_enabled |-> FALSE, error |-> ""]

FormatErrorResult(proxy) ==
    [proxy |-> proxy, ok |-> FALSE, ip |-> <<>>, country |-> "unknown",
     region |-> "unknown", latency |-> <<>>, tcp_enabled |-> FALSE,
     udp_enabled |-> FALSE, error |-> "format error"]

\* Faulty variant of FailureError: the most recent probe error is reported.
FailureError_LastError(tcp_error, udp_error, last_error) == last_error

\* The error text of a failed check ('连接失败').
FailureError(tcp_error, udp_error, last_error) == "connection failed"

\* Faulty variant of FailureResult: UDP is reported only together with TCP.
FailureResult_UdpNeedsTcp(proxy, tcp, udp, tcp_error, udp_error, last) ==
    [proxy |-> proxy, ok |-> FALSE, ip |-> <<>>, country |-> "",
     region |-> "", latency |-> <<>>, tcp_enabled |-> tcp,
     udp_enabled |-> tcp /\ udp, error |-> "connection failed"]

\* return False, '', '', '', 0, tcp_enabled, udp_enabled  and the dict built
\* from it by check_socks5.
FailureResult(proxy, tcp, udp, tcp_error, udp_error, last) ==
    [proxy |-> proxy, ok |-> FALSE, ip |-> <<>>, country |-> "",
     region |-> "", latency |-> <<>>, tcp_enabled |-> tcp,
     udp_enabled |-> udp, error |-> FailureError(tcp_error, udp_error, last)]

\* return True, ip_resp, country, region, latency, tcp_enabled, udp_enabled
\* and the dict built from it by check_socks5.
\* Faulty variant of SuccessResult: a slow answer is reported in the error
\* field.
SuccessResult_SlowIsReported(proxy, ip_resp, location, latency, tcp, udp) ==
    [proxy |-> proxy, ok |-> TRUE, ip |-> ip_resp,
     country |-> location.country, region |-> location.region,
     latency |-> <<latency>>, tcp_enabled |-> tcp, udp_enabled |-> udp,
     error |-> IF latency > 0 THEN "slow" ELSE ""]

SuccessResult(proxy, ip_resp, location, latency, tcp, udp) ==
    [proxy |-> proxy, ok |-> TRUE, ip |-> ip_resp,
     country |-> location.country, region |-> location.region,
     latency |-> <<latency>>, tcp_enabled |-> tcp, udp_enabled |-> udp,
     error |-> ""]

\* No result yet.
NoResult ==
    [proxy |-> <<>>, ok |-> FALSE, ip |-> <<>>, country |-> "", region |-> "",
     latency |-> <<>>, tcp_enabled |-> FALSE, udp_enabled |-> FALSE,
     error |-> "pending"]


\* ==========================================================================
\* State
\* ==========================================================================
VARIABLES
    \* --- one call of check_socks5 (specification Spec)
    proxy,          \* the argument of check_socks5
    reader,         \* self.reader: "None" or "open"
    pc,             \* "start", "tcp", "udp", "egress", "done"
    target,         \* ip, port, user, pwd
    attempt,        \* the loop variable of `for attempt in range(max_retries)`
    endpoint_idx,   \* position in test_endpoints (1..NumEndpoints)
    tcp_enabled, udp_enabled, tcp_error, udp_error,
    result,         \* the dict check_socks5 returns
    \* history of the call, for stating the claims
    n_tcp, n_udp, n_http, n_geo,   \* calls made so far, per kind
    log,            \* per attempt: what its probes returned
    last_error,     \* the most recent error text of any probe
    last_status,    \* status code of the most recent HTTP response (0: none)
    \* --- one batch (specification SpecBatch)
    proxies,        \* self.proxies
    run_pc,         \* CheckerThread.run: "init", "submit", "wait", "returned"
    submitted,      \* number of futures submitted so far
    item_pc,        \* per index: where process_proxy(idx, proxy) is
    item_result,    \* per index: the local `result` of process_proxy
    loaded,         \* per index: the value `self.progress_count += 1` read
    current,        \* per index: the local `current` of process_proxy
    mutex,          \* self.mutex: MutexFree, or the index of its holder
    progress_count, \* self.progress_count
    signals,        \* every signal emitted, in emission order
    delivered,      \* how many of them the main thread has handled
    results,        \* MainWindow.results
    progress_value, \* MainWindow.progress.value()
    button_enabled, \* MainWindow.button.isEnabled()
    finished_shown, \* number of calls of MainWindow.check_finished
    \* --- one line checked repeatedly (specification SpecRerun)
    transport,      \* what the network answers to each attempt's probes
    runs,           \* the dicts check_socks5 returned so far
    \* --- one call of udp_connect_test (specification SpecUdp)
    udp_call,       \* its arguments, and what the proxy answers
    udp_ret         \* what it returned, what it sent, the socket's state

checkVars ==
    <<proxy, reader, pc, target, attempt, endpoint_idx, tcp_enabled,
      udp_enabled, tcp_error, udp_error, result, n_tcp, n_udp, n_http, n_geo,
      log, last_error, last_status>>

batchVars ==
    <<proxies, run_pc, submitted, item_pc, item_result, loaded, current,
      mutex, progress_count, signals, delivered, results, progress_value,
      button_enabled, finished_shown>>

rerunVars == <<transport, runs>>

udpVars == <<udp_call, udp_ret>>

vars == <<checkVars, batchVars, rerunVars, udpVars>>

\* ==========================================================================
\* One call of check_socks5, step by step
\* ==========================================================================
CheckIdle ==
    /\ pc = "start"
    /\ target = NoEndpoint
    /\ attempt = 0
    /\ endpoint_idx = 1
    /\ tcp_enabled = FALSE
    /\ udp_enabled = FALSE
    /\ tcp_error = ""
    /\ udp_error = ""
    /\ result = NoResult
    /\ n_tcp = 0
    /\ n_udp = 0
    /\ n_http = 0
    /\ n_geo = 0
    /\ log = <<>>
    /\ last_error = ""
    /\ last_status = 0

BatchIdle ==
    /\ proxies = <<>>
    /\ run_pc = "returned"
    /\ submitted = 0
    /\ item_pc = <<>>
    /\ item_result = <<>>
    /\ loaded = <<>>
    /\ current = <<>>
    /\ mutex = 0
    /\ progress_count = 0
    /\ signals = <<>>
    /\ delivered = 0
    /\ results = <<>>
    /\ progress_value = 0
    /\ button_enabled = TRUE
    /\ finished_shown = 0

RerunIdle ==
    /\ transport = <<>>
    /\ runs = <<>>

UdpIdle ==
    /\ udp_call = <<>>
    /\ udp_ret = <<>>

Init ==
    /\ proxy \in Lines
    /\ reader \in Readers
    /\ CheckIdle
    /\ BatchIdle
    /\ RerunIdle
    /\ UdpIdle

\* test_endpoints: the echo services, by URL, in the order the loop tries
\* them.
test_endpoints ==
    <<"http://ifconfig.me/ip", "http://api.ipify.org", "http://icanhazip.com",
      "http://ident.me", "http://ipinfo.io/ip">>

\* History only: the endpoint answered with status 200 (whatever the loop
\* then does with the answer).
Answered200(r) == r.exc = "none" /\ r.status_code = 200

\* Faulty variant of SkipsRound: `if tcp_enabled: continue`.
SkipsRound_Inverted(tcp_ok) == tcp_ok

\* Faulty variant of SkipsRound: the `continue` is missing.
SkipsRound_Never(tcp_ok) == FALSE

\* `if not tcp_enabled: continue`
SkipsRound(tcp_ok) == ~tcp_ok

\* Faulty variant of NextAttempt: the attempt is repeated until it succeeds
\* (`while True` in place of `for attempt in range(max_retries)`).
NextAttempt_UntilSuccess(tcp, udp, terr, uerr, last) ==
    /\ attempt' = attempt
    /\ pc' = "tcp"
    /\ result' = result

\* The end of one iteration of the retry loop that did not return: the next
\* iteration, or past the loop `return False, '', '', '', 0, tcp_enabled,
\* udp_enabled` and the failure dict of check_socks5.
NextAttempt(tcp, udp, terr, uerr, last) ==
    IF attempt + 1 < max_retries
    THEN /\ attempt' = attempt + 1
         /\ pc' = "tcp"
         /\ result' = result
    ELSE /\ attempt' = attempt
         /\ pc' = "done"
         /\ result' = FailureResult(proxy, tcp, udp, terr, uerr, last)

\* check_socks5 up to the call of test_proxy_connection, and the latter up to
\* its loop.
ParseLine ==
    /\ pc = "start"
    /\ LET parts == ParseFields(proxy)
       IN  IF FieldCountOk(parts)
           THEN /\ target' = Endpoint(parts)
                /\ pc' = "tcp"
                /\ result' = result
           ELSE /\ target' = target
                /\ pc' = "done"
                /\ result' = FormatErrorResult(proxy)
    /\ UNCHANGED <<proxy, reader, attempt, endpoint_idx, tcp_enabled,
                   udp_enabled, tcp_error, udp_error, n_tcp, n_udp, n_http,
                   n_geo, log, last_error, last_status>>
    /\ UNCHANGED <<batchVars, rerunVars, udpVars>>

\* tcp_enabled, tcp_error = self.tcp_connect_test(ip, port)
TcpProbe ==
    /\ pc = "tcp"
    /\ \E net \in TcpNetOutcomes :
        LET r == tcp_connect_test(target.ip, target.port, net)
        IN  /\ tcp_enabled' = r.ok
            /\ tcp_error' = r.msg
            /\ n_tcp' = n_tcp + 1
            /\ log' = Append(log, [tcp |-> r.ok, udp |-> "skipped",
                                   requests |-> 0, egress |-> 0,
                                   urls |-> <<>>, body |-> <<>>,
                                   geo |-> <<>>])
            /\ last_error' = IF r.ok THEN last_error ELSE r.msg
            /\ IF SkipsRound(r.ok)
               THEN NextAttempt(r.ok, udp_enabled, r.msg, udp_error,
                                IF r.ok THEN last_error ELSE r.msg)
               ELSE /\ pc' = "udp"
                    /\ UNCHANGED <<attempt, result>>
    /\ UNCHANGED <<proxy, reader, target, endpoint_idx, udp_enabled,
                   udp_error, n_udp, n_http, n_geo, last_status>>
    /\ UNCHANGED <<batchVars, rerunVars, udpVars>>

\* Faulty variant of UdpProbe: a failed UDP probe ends the round
\* (`if not udp_enabled: continue`).
UdpProbe_AbortsOnFailure ==
    /\ pc = "udp"
    /\ \E sv \in LoopServers :
        LET r == udp_connect_test(target.ip, target.port, target.user,
                                  target.pwd, sv)
        IN  /\ udp_enabled' = r.ok
            /\ udp_error' = r.msg
            /\ log' = [log EXCEPT ![Len(log)].udp =
                           IF r.ok THEN "ok" ELSE "failed"]
            /\ last_error' = IF r.ok THEN last_error ELSE r.msg
            /\ IF r.ok
               THEN /\ pc' = "egress"
                    /\ UNCHANGED <<attempt, result>>
               ELSE NextAttempt(tcp_enabled, r.ok, tcp_error, r.msg, r.msg)
    /\ n_udp' = n_udp + 1
    /\ endpoint_idx' = 1
    /\ UNCHANGED <<proxy, reader, target, tcp_enabled, tcp_error, n_tcp,
                   n_http, n_geo, last_status>>
    /\ UNCHANGED <<batchVars, rerunVars, udpVars>>

\* udp_enabled, udp_error = self.udp_connect_test(ip, port, user, pwd);
\* whatever it returns, the endpoints are tried next.
UdpProbe ==
    /\ pc = "udp"
    /\ \E sv \in LoopServers :
        LET r == udp_connect_test(target.ip, target.port, target.user,
                                  target.pwd, sv)
        IN  /\ udp_enabled' = r.ok
            /\ udp_error' = r.msg
            /\ log' = [log EXCEPT ![Len(log)].udp =
                           IF r.ok THEN "ok" ELSE "failed"]
            /\ last_error' = IF r.ok THEN last_error ELSE r.msg
    /\ n_udp' = n_udp + 1
    /\ pc' = "egress"
    /\ endpoint_idx' = 1
    /\ UNCHANGED <<proxy, reader, target, attempt, tcp_enabled, tcp_error,
                   result, n_tcp, n_http, n_geo, last_status>>
    /\ UNCHANGED <<batchVars, rerunVars, udpVars>>

\* Faulty variant of EgressRequest: the geo lookup is made for the body of
\* every answer, before the status code is looked at.
EgressRequest_LooksUpEveryAnswer ==
    /\ pc = "egress"
    /\ \E r \in HttpOutcomes, latency \in Latencies, db \in DbOutcomes :
        /\ n_http' = n_http + 1
        /\ last_status' = r.status_code
        /\ log' = [log EXCEPT
                      ![Len(log)].requests = endpoint_idx,
                      ![Len(log)].egress =
                          IF Answered200(r) /\ @ = 0 THEN endpoint_idx ELSE @,
                      ![Len(log)].urls = Append(@, test_endpoints[endpoint_idx]),
                      ![Len(log)].body = IF Answered200(r) THEN r.text ELSE @,
                      ![Len(log)].geo =
                          Append(@, [ip |-> Strip(r.text), answer |-> db])]
        /\ IF IsSuccessResponse(r)
           THEN LET ip_resp == Strip(r.text)
                    location == get_location(reader, ip_resp, db)
                IN  /\ result' = SuccessResult(proxy, ip_resp, location,
                                     latency, tcp_enabled, udp_enabled)
                    /\ n_geo' = n_geo + 1
                    /\ pc' = "done"
                    /\ UNCHANGED <<attempt, endpoint_idx, last_error>>
           ELSE /\ n_geo' = n_geo + 1
                /\ last_error' = IF r.exc # "none" THEN r.exc
                                 ELSE "HTTP status " \o ToString(r.status_code)
                /\ IF endpoint_idx < NumEndpoints
                   THEN /\ endpoint_idx' = endpoint_idx + 1
                        /\ UNCHANGED <<pc, attempt, result>>
                   ELSE /\ endpoint_idx' = endpoint_idx
                        /\ NextAttempt(tcp_enabled, udp_enabled, tcp_error,
                               udp_error,
                               IF r.exc # "none" THEN r.exc
                               ELSE "HTTP status " \o ToString(r.status_code))
    /\ UNCHANGED <<proxy, reader, target, tcp_enabled, udp_enabled, tcp_error,
                   udp_error, n_tcp, n_udp>>
    /\ UNCHANGED <<batchVars, rerunVars, udpVars>>

\* One iteration of `for endpoint in test_endpoints`: the GET, and on HTTP 200
\* the geo lookup and the return.
EgressRequest ==
    /\ pc = "egress"
    /\ \E r \in HttpOutcomes, latency \in Latencies, db \in DbOutcomes :
        /\ n_http' = n_http + 1
        /\ last_status' = r.status_code
        /\ log' = [log EXCEPT
                      ![Len(log)].requests = endpoint_idx,
                      ![Len(log)].egress =
                          IF Answered200(r) /\ @ = 0 THEN endpoint_idx ELSE @,
                      ![Len(log)].urls = Append(@, test_endpoints[endpoint_idx]),
                      ![Len(log)].body = IF Answered200(r) THEN r.text ELSE @,
                      ![Len(log)].geo =
                          IF IsSuccessResponse(r)
                          THEN Append(@, [ip |-> Strip(r.text),
                                          answer |-> db])
                          ELSE @]
        /\ IF IsSuccessResponse(r)
           THEN LET ip_resp == Strip(r.text)
                    location == get_location(reader, ip_resp, db)
                IN  /\ result' = SuccessResult(proxy, ip_resp, location,
                                     latency, tcp_enabled, udp_enabled)
                    /\ n_geo' = n_geo + 1
                    /\ pc' = "done"
                    /\ UNCHANGED <<attempt, endpoint_idx, last_error>>
           ELSE /\ n_geo' = n_geo
                /\ last_error' = IF r.exc # "none" THEN r.exc
                                 ELSE "HTTP status " \o ToString(r.status_code)
                /\ IF endpoint_idx < NumEndpoints
                   THEN /\ endpoint_idx' = endpoint_idx + 1
                        /\ UNCHANGED <<pc, attempt, result>>
                   ELSE /\ endpoint_idx' = endpoint_idx
                        /\ NextAttempt(tcp_enabled, udp_enabled, tcp_error,
                               udp_error,
                               IF r.exc # "none" THEN r.exc
                               ELSE "HTTP status " \o ToString(r.status_code))
    /\ UNCHANGED <<proxy, reader, target, tcp_enabled, udp_enabled, tcp_error,
                   udp_error, n_tcp, n_udp>>
    /\ UNCHANGED <<batchVars, rerunVars, udpVars>>

Next == ParseLine \/ TcpProbe \/ UdpProbe \/ EgressRequest

Spec == Init /\ [][Next]_vars

\* check_socks5 runs in one thread, and every socket and HTTP call is made
\* with a timeout: a step that can be taken is taken.
SpecFair == Spec /\ WF_vars(Next)


\* ==========================================================================
\* check_socks5 as a function of the line and of what the network answers
\* ==========================================================================
\* What one iteration of the retry loop meets: the TCP connect outcome, the
\* proxy's SOCKS5 answers, the answer of each echo endpoint, the time the
\* successful GET took and the geo database's answer.
Round(net, sv, http, latency, db) ==
    [net |-> net, sv |-> sv, http |-> http, latency |-> latency, db |-> db]

\* The first endpoint (in list order) that answers HTTP 200; 0 when none does.
FirstSuccess(http) ==
    IF \E k \in 1..NumEndpoints : IsSuccessResponse(http[k])
    THEN CHOOSE k \in 1..NumEndpoints :
            /\ IsSuccessResponse(http[k])
            /\ \A j \in 1..(k - 1) : ~IsSuccessResponse(http[j])
    ELSE 0

\* The loop of test_proxy_connection from iteration `att` on, with the values
\* tcp_enabled, udp_enabled, tcp_error, udp_error have at that point.
RECURSIVE RetryLoop(_, _, _, _, _, _, _, _, _)
RetryLoop(line, tgt, rdr, script, att, tcp, udp, terr, uerr) ==
    IF att >= max_retries
    THEN FailureResult(line, tcp, udp, terr, uerr, "")
    ELSE LET round == script[att + 1]
             t == tcp_connect_test(tgt.ip, tgt.port, round.net)
             u == udp_connect_test(tgt.ip, tgt.port, tgt.user, tgt.pwd,
                                   round.sv)
             k == FirstSuccess(round.http)
         IN  IF SkipsRound(t.ok)
             THEN RetryLoop(line, tgt, rdr, script, att + 1, t.ok, udp,
                            t.msg, uerr)
             ELSE IF k # 0
             THEN SuccessResult(line, Strip(round.http[k].text),
                      get_location(rdr, Strip(round.http[k].text), round.db),
                      round.latency, t.ok, u.ok)
             ELSE RetryLoop(line, tgt, rdr, script, att + 1, t.ok, u.ok,
                            t.msg, u.msg)

check_socks5(line, rdr, script) ==
    LET parts == ParseFields(line)
    IN  IF FieldCountOk(parts)
        THEN RetryLoop(line, Endpoint(parts), rdr, script, 0, FALSE, FALSE,
                       "", "")
        ELSE FormatErrorResult(line)

\* ==========================================================================
\* One batch: CheckerThread.run, process_proxy and the MainWindow slots
\* ==========================================================================
\* The lines of a batch: a malformed one and a well-formed one.
BatchLines == {
    <<"a">>,
    <<"a", ":", "1">> }

\* What a batch item can meet.  Rounds: the proxy is unreachable; it is
\* reachable and supports UDP but no echo endpoint answers 200; the first
\* endpoint answers 200 and the proxy refuses UDP ASSOCIATE.
AllEndpoints(r) == [k \in 1..NumEndpoints |-> r]
UdpYes == Server("ok", Recv(<<5, 0>>), Recv(<<1, 0>>), Recv(AssocReply(0)))
UdpNo == Server("ok", Recv(<<5, 0>>), Recv(<<1, 0>>), Recv(AssocReply(2)))
GeoHit ==
    [raises |-> FALSE, country_zh |-> "zh:US", country_name |-> "US",
     subdivisions |-> TRUE, region_zh |-> "zh:CA", region_name |-> "CA"]
Unreachable ==
    Round("timed out", UdpYes, AllEndpoints(HttpRaises("ConnectTimeout")),
          0, GeoHit)
NoEgress ==
    Round("ok", UdpYes, AllEndpoints(HttpResponse(503, <<"x">>)), 0, GeoHit)
Usable ==
    Round("ok", UdpNo, AllEndpoints(HttpResponse(200, <<"7">>)), 150, GeoHit)
\* Scripts: always unreachable; reachable once, then unreachable; unreachable
\* at first, then usable.
BatchScripts ==
    {[a \in 1..max_retries |-> Unreachable],
     [a \in 1..max_retries |-> IF a = 1 THEN NoEgress ELSE Unreachable],
     [a \in 1..max_retries |-> IF a = 1 THEN Unreachable ELSE Usable]}

Indices == DOMAIN proxies

\* self.mutex = QMutex(): -1 when unlocked, else the index of the holder.
MutexFree == -1

\* The state MainWindow.start_check leaves: the button disabled, results
\* emptied, a CheckerThread constructed on the lines and started.
InitBatch ==
    /\ proxy = <<"a">>
    /\ reader = "open"
    /\ CheckIdle
    /\ \E n \in 1..NumLines : proxies \in [0..(n - 1) -> BatchLines]
    /\ run_pc = "init"
    /\ submitted = 0
    /\ item_pc = [i \in DOMAIN proxies |-> "new"]
    /\ item_result = [i \in DOMAIN proxies |-> NoResult]
    /\ loaded = [i \in DOMAIN proxies |-> 0]
    /\ current = [i \in DOMAIN proxies |-> 0]
    /\ mutex = MutexFree
    /\ progress_count = 0
    /\ signals = <<>>
    /\ delivered = 0
    /\ results = <<>>
    /\ progress_value = 0
    /\ button_enabled = FALSE
    /\ finished_shown = 0
    /\ RerunIdle
    /\ UdpIdle

\* self.progress_count = 0; the executor is created.
RunStart ==
    /\ run_pc = "init"
    /\ progress_count' = 0
    /\ run_pc' = "submit"
    /\ UNCHANGED <<loaded, proxies, submitted, item_pc, item_result, current,
                   mutex, signals, delivered, results, progress_value,
                   button_enabled, finished_shown>>
    /\ UNCHANGED <<checkVars, rerunVars, udpVars>>

\* futures.append(executor.submit(self.process_proxy, idx, proxy)), in
\* enumeration order; after the last one run goes on to wait.
Submit ==
    /\ run_pc = "submit"
    /\ submitted < Cardinality(Indices)
    /\ item_pc' = [item_pc EXCEPT ![submitted] = "queued"]
    /\ submitted' = submitted + 1
    /\ run_pc' = IF submitted + 1 = Cardinality(Indices) THEN "wait"
                 ELSE "submit"
    /\ UNCHANGED <<loaded, proxies, item_result, current, mutex,
                   progress_count, signals, delivered, results, progress_value,
                   button_enabled, finished_shown>>
    /\ UNCHANGED <<checkVars, rerunVars, udpVars>>

\* Items a pool thread is working on.
Running == {i \in Indices : item_pc[i] \notin {"new", "queued", "done"}}

\* Faulty variant of StartItem: a thread per work item, however many run.
StartItem_NoLimit(i) ==
    /\ item_pc[i] = "queued"
    /\ \A j \in Indices : item_pc[j] = "queued" => i <= j
    /\ item_pc' = [item_pc EXCEPT ![i] = "check"]
    /\ UNCHANGED <<loaded, proxies, run_pc, submitted, item_result, current,
                   mutex, progress_count, signals, delivered, results,
                   progress_value, button_enabled, finished_shown>>
    /\ UNCHANGED <<checkVars, rerunVars, udpVars>>

\* A pool thread (there are at most max_workers) takes the oldest queued work
\* item and calls process_proxy(idx, proxy).
StartItem(i) ==
    /\ item_pc[i] = "queued"
    /\ \A j \in Indices : item_pc[j] = "queued" => i <= j
    /\ Cardinality(Running) < max_workers
    /\ item_pc' = [item_pc EXCEPT ![i] = "check"]
    /\ UNCHANGED <<loaded, proxies, run_pc, submitted, item_result, current,
                   mutex, progress_count, signals, delivered, results,
                   progress_value, button_enabled, finished_shown>>
    /\ UNCHANGED <<checkVars, rerunVars, udpVars>>

\* Faulty variant of Check: every work item sees the line submitted last (the
\* arguments are bound when the item runs, not when it is submitted).
Check_LastLine(i) ==
    /\ item_pc[i] = "check"
    /\ \E script \in BatchScripts :
        item_result' = [item_result EXCEPT
                            ![i] = check_socks5(proxies[submitted - 1],
                                                reader, script)]
    /\ item_pc' = [item_pc EXCEPT ![i] = "emit_result"]
    /\ UNCHANGED <<loaded, proxies, run_pc, submitted, current, mutex,
                   progress_count, signals, delivered, results,
                   progress_value, button_enabled, finished_shown>>
    /\ UNCHANGED <<checkVars, rerunVars, udpVars>>

\* result = self.check_socks5(proxy)
Check(i) ==
    /\ item_pc[i] = "check"
    /\ \E script \in BatchScripts :
        item_result' = [item_result EXCEPT
                            ![i] = check_socks5(proxies[i], reader, script)]
    /\ item_pc' = [item_pc EXCEPT ![i] = "emit_result"]
    /\ UNCHANGED <<loaded, proxies, run_pc, submitted, current, mutex,
                   progress_count, signals, delivered, results, progress_value,
                   button_enabled, finished_shown>>
    /\ UNCHANGED <<checkVars, rerunVars, udpVars>>

ResultSignal(idx, res) ==
    [sig |-> "result", idx |-> idx, res |-> res, value |-> 0]
ProgressSignal(value) ==
    [sig |-> "progress", idx |-> -1, res |-> NoResult,
     value |-> value]
FinishedSignal ==
    [sig |-> "finished", idx |-> -1, res |-> NoResult, value |-> 0]

\* Faulty variant of ResultEmission: failures are not reported.
ResultEmission_OnlyOk(idx, res) ==
    IF res.ok THEN <<ResultSignal(idx, res)>> ELSE <<>>

\* What process_proxy emits on result_signal for its item.
ResultEmission(idx, res) == <<ResultSignal(idx, res)>>

\* Faulty variant of EmitResult: the item goes on to the counter without
\* emitting its result.
EmitResult_Skipped(i) ==
    /\ item_pc[i] = "emit_result"
    /\ item_pc' = [item_pc EXCEPT ![i] = "lock"]
    /\ UNCHANGED <<loaded, proxies, run_pc, submitted, item_result, current,
                   mutex, progress_count, signals, delivered, results,
                   progress_value, button_enabled, finished_shown>>
    /\ UNCHANGED <<checkVars, rerunVars, udpVars>>

\* self.result_signal.emit(idx, result)
EmitResult(i) ==
    /\ item_pc[i] = "emit_result"
    /\ signals' = signals \o ResultEmission(i, item_result[i])
    /\ item_pc' = [item_pc EXCEPT ![i] = "lock"]
    /\ UNCHANGED <<loaded, proxies, run_pc, submitted, item_result, current,
                   mutex, progress_count, delivered, results, progress_value,
                   button_enabled, finished_shown>>
    /\ UNCHANGED <<checkVars, rerunVars, udpVars>>

\* Faulty variant of Lock: the thread enters without waiting for the mutex.
Lock_NoMutex(i) ==
    /\ item_pc[i] = "lock"
    /\ mutex' = i
    /\ item_pc' = [item_pc EXCEPT ![i] = "load"]
    /\ UNCHANGED <<loaded, proxies, run_pc, submitted, item_result, current,
                   progress_count, signals, delivered, results, progress_value,
                   button_enabled, finished_shown>>
    /\ UNCHANGED <<checkVars, rerunVars, udpVars>>

\* self.mutex.lock()
Lock(i) ==
    /\ item_pc[i] = "lock"
    /\ mutex = MutexFree
    /\ mutex' = i
    /\ item_pc' = [item_pc EXCEPT ![i] = "load"]
    /\ UNCHANGED <<loaded, proxies, run_pc, submitted, item_result, current,
                   progress_count, signals, delivered, results, progress_value,
                   button_enabled, finished_shown>>
    /\ UNCHANGED <<checkVars, rerunVars, udpVars>>

\* self.progress_count += 1, first half: the attribute is read.
LoadCount(i) ==
    /\ item_pc[i] = "load"
    /\ loaded' = [loaded EXCEPT ![i] = progress_count]
    /\ item_pc' = [item_pc EXCEPT ![i] = "increment"]
    /\ UNCHANGED <<proxies, run_pc, submitted, item_result, current, mutex,
                   progress_count, signals, delivered, results,
                   progress_value, button_enabled, finished_shown>>
    /\ UNCHANGED <<checkVars, rerunVars, udpVars>>

\* self.progress_count += 1, second half: the value read plus one is stored.
Increment(i) ==
    /\ item_pc[i] = "increment"
    /\ progress_count' = loaded[i] + 1
    /\ item_pc' = [item_pc EXCEPT ![i] = "read_current"]
    /\ UNCHANGED <<loaded, proxies, run_pc, submitted, item_result, current,
                   mutex, signals, delivered, results, progress_value,
                   button_enabled, finished_shown>>
    /\ UNCHANGED <<checkVars, rerunVars, udpVars>>

\* current = self.progress_count
ReadCurrent(i) ==
    /\ item_pc[i] = "read_current"
    /\ current' = [current EXCEPT ![i] = progress_count]
    /\ item_pc' = [item_pc EXCEPT ![i] = "unlock"]
    /\ UNCHANGED <<loaded, proxies, run_pc, submitted, item_result, mutex,
                   progress_count, signals, delivered, results, progress_value,
                   button_enabled, finished_shown>>
    /\ UNCHANGED <<checkVars, rerunVars, udpVars>>

\* self.mutex.unlock()
Unlock(i) ==
    /\ item_pc[i] = "unlock"
    /\ mutex' = MutexFree
    /\ item_pc' = [item_pc EXCEPT ![i] = "emit_progress"]
    /\ UNCHANGED <<loaded, proxies, run_pc, submitted, item_result, current,
                   progress_count, signals, delivered, results, progress_value,
                   button_enabled, finished_shown>>
    /\ UNCHANGED <<checkVars, rerunVars, udpVars>>

\* self.progress_signal.emit(current); return result
EmitProgress(i) ==
    /\ item_pc[i] = "emit_progress"
    /\ signals' = Append(signals, ProgressSignal(current[i]))
    /\ item_pc' = [item_pc EXCEPT ![i] = "done"]
    /\ UNCHANGED <<loaded, proxies, run_pc, submitted, item_result, current,
                   mutex, progress_count, delivered, results, progress_value,
                   button_enabled, finished_shown>>
    /\ UNCHANGED <<checkVars, rerunVars, udpVars>>

\* Faulty variant of FuturesDone: wait(..., return_when=FIRST_COMPLETED).
FuturesDone_Any == \E i \in Indices : item_pc[i] = "done"

\* concurrent.futures.wait(futures) returns (ALL_COMPLETED).
FuturesDone == \A i \in Indices : item_pc[i] = "done"

\* wait returns, the executor shuts down, run returns and QThread emits
\* finished.
RunReturn ==
    /\ run_pc = "wait"
    /\ FuturesDone
    /\ run_pc' = "returned"
    /\ signals' = Append(signals, FinishedSignal)
    /\ UNCHANGED <<loaded, proxies, submitted, item_pc, item_result, current,
                   mutex, progress_count, delivered, results, progress_value,
                   button_enabled, finished_shown>>
    /\ UNCHANGED <<checkVars, rerunVars, udpVars>>

\* The main thread's event loop handles the next queued signal: update_result,
\* update_progress or check_finished.
Deliver ==
    /\ delivered < Len(signals)
    /\ delivered' = delivered + 1
    /\ LET s == signals[delivered + 1]
       IN  /\ results' = IF s.sig = "result" THEN Append(results, s.res)
                         ELSE results
           /\ progress_value' = IF s.sig = "progress" THEN s.value
                                ELSE progress_value
           /\ button_enabled' = IF s.sig = "finished" THEN TRUE
                                ELSE button_enabled
           /\ finished_shown' = IF s.sig = "finished" THEN finished_shown + 1
                                ELSE finished_shown
    /\ UNCHANGED <<loaded, proxies, run_pc, submitted, item_pc, item_result,
                   current, mutex, progress_count, signals>>
    /\ UNCHANGED <<checkVars, rerunVars, udpVars>>

NextBatch ==
    \/ RunStart
    \/ Submit
    \/ \E i \in Indices : StartItem(i)
    \/ \E i \in Indices : Check(i)
    \/ \E i \in Indices : EmitResult(i)
    \/ \E i \in Indices : Lock(i)
    \/ \E i \in Indices : LoadCount(i)
    \/ \E i \in Indices : Increment(i)
    \/ \E i \in Indices : ReadCurrent(i)
    \/ \E i \in Indices : Unlock(i)
    \/ \E i \in Indices : EmitProgress(i)
    \/ RunReturn
    \/ Deliver

SpecBatch == InitBatch /\ [][NextBatch]_vars


\* ==========================================================================
\* The thread pool on a batch larger than the pool
\* ==========================================================================
\* process_proxy is taken as one step here: an item occupies its pool thread
\* from StartItem to the end of process_proxy whatever happens in between.
PoolLine == <<"a", ":", "1">>

\* A check that only meets timeouts, and one that succeeds at once.
PoolScripts ==
    {[a \in 1..max_retries |-> Unreachable],
     [a \in 1..max_retries |-> Usable]}

InitPool ==
    /\ proxy = <<"a">>
    /\ reader = "open"
    /\ CheckIdle
    /\ \E n \in 1..PoolBatch : proxies = [i \in 0..(n - 1) |-> PoolLine]
    /\ run_pc = "init"
    /\ submitted = 0
    /\ item_pc = [i \in DOMAIN proxies |-> "new"]
    /\ item_result = [i \in DOMAIN proxies |-> NoResult]
    /\ loaded = [i \in DOMAIN proxies |-> 0]
    /\ current = [i \in DOMAIN proxies |-> 0]
    /\ mutex = MutexFree
    /\ progress_count = 0
    /\ signals = <<>>
    /\ delivered = 0
    /\ results = <<>>
    /\ progress_value = 0
    /\ button_enabled = FALSE
    /\ finished_shown = 0
    /\ RerunIdle
    /\ UdpIdle

\* A pool thread has taken item i and nothing holds it up (taken as one
\* step, process_proxy finds the mutex free).
CanProcess(i) == item_pc[i] = "check" /\ mutex = MutexFree

\* process_proxy(idx, proxy) from its first statement to its return.
ProcessProxy(i) ==
    /\ CanProcess(i)
    /\ \E script \in PoolScripts :
        LET res == check_socks5(proxies[i], reader, script)
        IN  /\ item_result' = [item_result EXCEPT ![i] = res]
            /\ signals' = (signals \o ResultEmission(i, res))
                              \o <<ProgressSignal(progress_count + 1)>>
    /\ loaded' = [loaded EXCEPT ![i] = progress_count]
    /\ progress_count' = progress_count + 1
    /\ current' = [current EXCEPT ![i] = progress_count + 1]
    /\ item_pc' = [item_pc EXCEPT ![i] = "done"]
    /\ UNCHANGED <<proxies, run_pc, submitted, mutex, delivered, results,
                   progress_value, button_enabled, finished_shown>>
    /\ UNCHANGED <<checkVars, rerunVars, udpVars>>

NextPool ==
    \/ RunStart
    \/ Submit
    \/ \E i \in Indices : StartItem(i)
    \/ \E i \in Indices : ProcessProxy(i)
    \/ RunReturn

SpecPool == InitPool /\ [][NextPool]_vars


\* ==========================================================================
\* The main window while a batch runs
\* ==========================================================================
\* start_check has disabled the start button and emptied self.results; the
\* "clear results" button stays enabled, so the user can click it at any
\* time.  process_proxy is taken as one step.

\* clear_results: the slot of clear_result_btn.
ClearResults ==
    /\ results' = <<>>
    /\ progress_value' = 0
    /\ UNCHANGED <<loaded, proxies, run_pc, submitted, item_pc, item_result,
                   current, mutex, progress_count, signals, delivered,
                   button_enabled, finished_shown>>
    /\ UNCHANGED <<checkVars, rerunVars, udpVars>>

NextWindow ==
    \/ RunStart
    \/ Submit
    \/ \E i \in Indices : StartItem(i)
    \/ \E i \in Indices : ProcessProxy(i)
    \/ RunReturn
    \/ Deliver
    \/ ClearResults

SpecWindow == InitBatch /\ [][NextWindow]_vars


\* ==========================================================================
\* One line checked several times against a network that answers the same
\* ==========================================================================
\* The fifth endpoint is the first to answer 200, after a timeout and 503s;
\* the database has no localized names for the egress IP.
LateAnswer ==
    Round("ok", UdpYes,
          [k \in 1..NumEndpoints |->
              IF k = 1 THEN HttpRaises("ConnectTimeout")
              ELSE IF k < NumEndpoints THEN HttpResponse(503, <<"x">>)
              ELSE HttpResponse(200, <<"7", " ">>)],
          0,
          [raises |-> FALSE, country_zh |-> "None", country_name |-> "US",
           subdivisions |-> TRUE, region_zh |-> "None", region_name |-> "CA"])

RerunScripts ==
    [1..max_retries -> {Unreachable, NoEgress, Usable, LateAnswer}]

\* The same answers, the successful GET taking `latency` ms this time.
Timed(script, latency) ==
    [a \in DOMAIN script |-> [script[a] EXCEPT !.latency = latency]]

InitRerun ==
    /\ proxy \in Lines
    /\ reader \in Readers
    /\ CheckIdle
    /\ BatchIdle
    /\ transport \in RerunScripts
    /\ runs = <<>>
    /\ UdpIdle

\* check_socks5(proxy) is called once more.
CheckAgain ==
    /\ Len(runs) < NumRuns
    /\ \E latency \in Latencies :
        runs' = Append(runs, check_socks5(proxy, reader,
                                          Timed(transport, latency)))
    /\ UNCHANGED <<checkVars, batchVars, udpVars, transport>>

NextRerun == CheckAgain

SpecRerun == InitRerun /\ [][NextRerun]_vars


\* ==========================================================================
\* One call of udp_connect_test against every proxy behaviour
\* ==========================================================================
\* user and pwd as check_socks5 passes them: None (<<>>) for a two-field line,
\* the third and fourth field, either of which may be empty, otherwise.
UdpCredentials ==
    {[user |-> <<>>, pwd |-> <<>>],
     [user |-> <<"a">>, pwd |-> <<"1">>],
     [user |-> <<"a">>, pwd |-> <<>>],
     [user |-> <<>>, pwd |-> <<"1">>]}

\* A numeric port and one int(port) rejects.
UdpPorts == {<<"1">>, <<"a">>}

InitUdp ==
    /\ proxy = <<"a">>
    /\ reader = "open"
    /\ CheckIdle
    /\ BatchIdle
    /\ RerunIdle
    /\ \E c \in UdpCredentials, p \in UdpPorts, sv \in UdpServers :
          udp_call = [ip |-> <<"a">>, port |-> p, user |-> c.user,
                      pwd |-> c.pwd, sv |-> sv]
    /\ udp_ret = <<>>

\* udp_enabled, udp_error = self.udp_connect_test(ip, port, user, pwd)
UdpCall ==
    /\ udp_ret = <<>>
    /\ udp_ret' = <<udp_connect_test(udp_call.ip, udp_call.port,
                                     udp_call.user, udp_call.pwd,
                                     udp_call.sv)>>
    /\ UNCHANGED <<checkVars, batchVars, rerunVars, udp_call>>

NextUdp == UdpCall

SpecUdp == InitUdp /\ [][NextUdp]_vars


\* ==========================================================================
\* Properties of one check (specification Spec)
\* ==========================================================================
\* The field count of a line as the input grammar defines it: split on '|'
\* when the line holds one, on ':' otherwise.
FieldCount(line) ==
    IF Contains(line, "|") THEN Len(Split(line, "|"))
    ELSE Len(Split(line, ":"))

WellFormedLine == FieldCount(proxy) \in {2, 4}

Returned == pc = "done"

LastAttempt == log[Len(log)]

\* C1: for a well-formed line, check_socks5 returns ok=true exactly when, in
\* one of the at most max_retries attempts, the TCP probe succeeded and an
\* echo endpoint answered HTTP 200 in that attempt.
OkIffSomeAttemptSucceeded ==
    (Returned /\ WellFormedLine) =>
        /\ Len(log) <= max_retries
        /\ (result.ok <=>
                \E a \in 1..Len(log) : log[a].tcp /\ log[a].egress # 0)

\* Reached: two failed attempts (TCP down; TCP up, no endpoint answers 200),
\* then success in the last attempt.
OkInLastAttempt ==
    /\ Returned
    /\ result.ok
    /\ Len(log) = max_retries
    /\ ~log[1].tcp
    /\ log[2].tcp /\ log[2].egress = 0 /\ log[2].requests = NumEndpoints

\* C2: a line whose field count is neither 2 nor 4 gets ok=false with the
\* format-error message, and no TCP connect, SOCKS5 handshake or HTTP request
\* is ever made for it.
FormatErrorWithoutIO ==
    FieldCount(proxy) \notin {2, 4} =>
        /\ n_tcp = 0 /\ n_udp = 0 /\ n_http = 0 /\ n_geo = 0
        /\ Returned =>
              /\ ~result.ok
              /\ result.error = "format error"
              /\ result.proxy = proxy

\* Reached: a three-field line has been answered with the format error.
ThreeFieldsRejected ==
    /\ Returned
    /\ FieldCount(proxy) = 3
    /\ result.error = "format error"

\* C6: when the TCP probe fails in every attempt, exactly max_retries TCP
\* probes are made, no UDP probe and no egress request, and the result has
\* ok=false and tcp_enabled=false.
TcpAlwaysFailing ==
    (Returned /\ WellFormedLine /\ \A a \in 1..Len(log) : ~log[a].tcp) =>
        /\ n_tcp = max_retries
        /\ n_udp = 0
        /\ n_http = 0
        /\ ~result.ok
        /\ ~result.tcp_enabled

\* Reached: a numeric port, and the connect refused or timed out three times.
ThreeTcpFailures ==
    /\ Returned
    /\ IsIntLiteral(target.port)
    /\ Len(log) = max_retries
    /\ \A a \in 1..Len(log) : ~log[a].tcp
    /\ tcp_error = "Connection refused"

\* C7: once an egress request has returned HTTP 200 the check has returned
\* success: that request is the last one of its attempt, and its attempt is
\* the last one.
StopsAtFirst200 ==
    \A a \in 1..Len(log) :
        log[a].egress # 0 =>
            /\ Returned
            /\ result.ok
            /\ a = Len(log)
            /\ log[a].requests = log[a].egress

\* Reached: success at the second endpoint of the first attempt, with three
\* endpoints and two attempts left unused.
EarlySuccess ==
    /\ Returned
    /\ result.ok
    /\ Len(log) = 1
    /\ LastAttempt.egress = 2
    /\ n_http = 2 /\ n_tcp = 1 /\ n_udp = 1

\* C8: in every attempt whose TCP probe succeeded the UDP probe and then the
\* egress probe run, whatever the UDP probe returned; and a check that
\* succeeds after a failed UDP probe reports ok=true with udp_enabled=false.
UdpIndependentOfUsability ==
    /\ \A a \in 1..Len(log) :
          (log[a].tcp /\ (a < Len(log) \/ Returned)) =>
              /\ log[a].udp # "skipped"
              /\ log[a].requests >= 1
    /\ (Returned /\ result.ok) =>
          (result.udp_enabled <=> LastAttempt.udp = "ok")

\* Reached: UDP ASSOCIATE answered with reply code 0x02, egress succeeded.
UsableWithoutUdp ==
    /\ Returned
    /\ result.ok
    /\ ~result.udp_enabled
    /\ udp_error = "UDP ASSOCIATE failed: connection not allowed"

\* The outcome of the most recent UDP probe of the call ("skipped": none ran).
RECURSIVE LastUdpOutcome(_)
LastUdpOutcome(l) ==
    IF l = <<>> THEN "skipped"
    ELSE IF l[Len(l)].udp # "skipped" THEN l[Len(l)].udp
    ELSE LastUdpOutcome(SubSeq(l, 1, Len(l) - 1))

\* C9 as claimed: on failure of a well-formed line both flags describe the
\* last attempt, udp_enabled being false when that attempt ran no UDP probe.
FlagsDescribeLastAttempt ==
    (Returned /\ WellFormedLine /\ ~result.ok) =>
        /\ result.tcp_enabled = LastAttempt.tcp
        /\ result.udp_enabled = (LastAttempt.udp = "ok")

\* C9, amended: on failure of a well-formed line tcp_enabled is the TCP outcome
\* of the last attempt, and udp_enabled is the outcome of the most recent UDP
\* probe that ran in any attempt (false when none ran).
FlagsAreLastObserved ==
    (Returned /\ WellFormedLine /\ ~result.ok) =>
        /\ result.tcp_enabled = LastAttempt.tcp
        /\ result.udp_enabled = (LastUdpOutcome(log) = "ok")

\* Reached: UDP confirmed in the first attempt, TCP down in the last one: the
\* failure reports tcp_enabled=false with udp_enabled=true.
StaleUdpFlag ==
    /\ Returned
    /\ ~result.ok
    /\ ~result.tcp_enabled
    /\ result.udp_enabled
    /\ LastAttempt.udp = "skipped"

\* C10 as claimed: the error of a failed check is the last error the retry
\* loop met.
ErrorIsLastError ==
    (Returned /\ WellFormedLine /\ ~result.ok) => result.error = last_error

\* C10, amended: the error of every failed check of a well-formed line is the
\* one fixed text "connection failed", whatever errors the probes returned.
ErrorIsFixedText ==
    (Returned /\ WellFormedLine /\ ~result.ok) =>
        result.error = "connection failed"

\* Reached: the last error was an HTTP 503 of the last endpoint.
FailedAfterHttp503 ==
    /\ Returned
    /\ ~result.ok
    /\ last_error = "HTTP status 503"
    /\ result.error # last_error

\* s is t without the whitespace at its two ends.
IsTrimOf(s, t) ==
    /\ s = <<>> \/ (s[1] \notin Whitespace /\ s[Len(s)] \notin Whitespace)
    /\ \E i \in 0..Len(t), j \in 0..Len(t) :
          /\ i + Len(s) + j = Len(t)
          /\ SubSeq(t, i + 1, i + Len(s)) = s
          /\ \A k \in (1..i) \cup ((Len(t) - j + 1)..Len(t)) :
                t[k] \in Whitespace

\* C11: within an attempt the echo endpoints are contacted in list order, the
\* next one after every answer that is not HTTP 200 or that is a transport
\* error; the first HTTP 200 ends the check with that body, trimmed, as the
\* egress IP; and an attempt whose five endpoints all failed is followed by
\* the next attempt (or, after the last attempt, by the failure result).
EndpointsInOrderUntil200 ==
    /\ \A a \in 1..Len(log) :
          /\ log[a].requests = Len(log[a].urls)
          /\ log[a].urls = SubSeq(test_endpoints, 1, Len(log[a].urls))
          /\ log[a].egress \in {0, log[a].requests}
          /\ (log[a].tcp /\ (a < Len(log) \/ (Returned /\ ~result.ok))) =>
                /\ log[a].urls = test_endpoints
                /\ log[a].egress = 0
    /\ pc = "egress" =>
          /\ endpoint_idx = LastAttempt.requests + 1
          /\ LastAttempt.egress = 0
    /\ (Returned /\ result.ok) =>
          /\ LastAttempt.egress = LastAttempt.requests
          /\ IsTrimOf(result.ip, LastAttempt.body)
    /\ (Returned /\ WellFormedLine /\ ~result.ok) => Len(log) = max_retries

\* Reached: in the second attempt four endpoints failed (one of them with a
\* transport error) and the fifth answered 200 with a body that ends in
\* whitespace.
FifthEndpointAnswers ==
    /\ Returned
    /\ result.ok
    /\ Len(log) = 2
    /\ log[1].urls = test_endpoints
    /\ log[2].urls = test_endpoints
    /\ LastAttempt.egress = NumEndpoints
    /\ LastAttempt.body = <<"7", " ">>
    /\ result.ip = <<"7">>
    /\ last_error = "ConnectTimeout"

\* The check called get_location, and the call returned.
LookedUp == Returned /\ result.ok /\ Len(LastAttempt.geo) = 1

\* What reader.city answered (or would have) to the lookup of this check.
LookupAnswer == LastAttempt.geo[1].answer

ResultLocation == [country |-> result.country, region |-> result.region]

\* C12 as claimed: get_location returns to its caller, and the pair
\* unknown/unknown whenever the lookup fails: no reader, reader.city raises
\* (bad IP, closed database), or the record has no subdivision.
SentinelOnEveryLookupFailure ==
    (Returned /\ result.ok) =>
        /\ LookedUp
        /\ (reader = "None" \/ LookupAnswer.raises
                \/ ~LookupAnswer.subdivisions) =>
              ResultLocation = UnknownLocation

\* C12, amended: get_location returns to its caller; it returns
\* unknown/unknown when there is no reader or reader.city raises, and for a
\* record without subdivisions it returns the country found with an empty
\* region.
SentinelOnRaiseEmptyRegionOtherwise ==
    (Returned /\ result.ok) =>
        /\ LookedUp
        /\ (reader = "None" \/ LookupAnswer.raises) =>
              ResultLocation = UnknownLocation
        /\ (reader # "None" /\ ~LookupAnswer.raises
                /\ ~LookupAnswer.subdivisions) =>
              /\ result.region = ""
              /\ result.country \in
                    {LookupAnswer.country_zh, LookupAnswer.country_name}
              /\ result.country # "None"

\* Reached: the database knows the country of the egress IP and no
\* subdivision: the check reports the country and an empty region.
CountryWithoutRegion ==
    /\ LookedUp
    /\ reader = "open"
    /\ ~LookupAnswer.raises
    /\ ~LookupAnswer.subdivisions
    /\ result.country = "zh:US"
    /\ result.region = ""

\* C13: when the constructor could not open the geo database (self.reader is
\* None), a check whose TCP probe and egress request succeed in some attempt
\* still returns ok=true, and the location it reports is unknown/unknown
\* whatever the database would have answered.
NoReaderDegradesToUnknown ==
    reader = "None" =>
        /\ (\E a \in 1..Len(log) : log[a].tcp /\ log[a].egress # 0) =>
              (Returned /\ result.ok)
        /\ (Returned /\ result.ok) =>
              /\ ResultLocation = UnknownLocation
              /\ result.ip = Strip(LastAttempt.body)
              /\ result.error = ""

\* Reached: without a reader, a check succeeded for an egress IP the database
\* would have located.
UsableWithoutReader ==
    /\ reader = "None"
    /\ LookedUp
    /\ ~LookupAnswer.raises
    /\ LookupAnswer.country_zh = "zh:US"
    /\ result.country = "unknown"
    /\ result.region = "unknown"

\* C18: the dict check_socks5 returns is well-formed with respect to ok: with
\* ok=false it has no latency (empty, or zero), an empty egress IP and a
\* non-empty error; with ok=true it has tcp_enabled=true and an empty error.
ResultWellFormed ==
    Returned =>
        /\ ~result.ok =>
              /\ result.latency \in {<<>>, <<0>>}
              /\ result.ip = <<>>
              /\ result.error # ""
        /\ result.ok =>
              /\ result.tcp_enabled
              /\ result.error = ""

\* Reached: a failure after the proxy had accepted TCP connections and an
\* endpoint had answered (HTTP 503) in the last attempt.
FailureAfterAnsweredRequests ==
    /\ Returned
    /\ ~result.ok
    /\ result.tcp_enabled
    /\ last_status = 503
    /\ n_http = max_retries * NumEndpoints
    /\ result.latency = <<>>
    /\ result.error = "connection failed"

\* C19: in every attempt the TCP probe runs first; the UDP probe and the
\* egress requests of an attempt run only after its TCP probe succeeded; and
\* after a failed TCP probe the loop is at the next attempt (or has returned
\* the failure) without any other probe.
TcpGatesTheAttempt ==
    /\ n_tcp = Len(log)
    /\ \A a \in 1..Len(log) :
          ~log[a].tcp =>
              /\ log[a].udp = "skipped"
              /\ log[a].urls = <<>>
              /\ a = Len(log) => (pc = "tcp" /\ attempt = a) \/ Returned
    /\ pc \in {"udp", "egress"} =>
          /\ Len(log) = attempt + 1
          /\ LastAttempt.tcp
          /\ tcp_enabled
    /\ pc = "egress" => LastAttempt.udp # "skipped"
    /\ n_udp = Cardinality({a \in 1..Len(log) : log[a].udp # "skipped"})
    /\ n_udp <= Cardinality({a \in 1..Len(log) : log[a].tcp})
    /\ n_http <= NumEndpoints * n_udp

\* Reached: the first attempt's TCP probe failed and nothing else ran in it;
\* the second attempt's TCP probe succeeded and its UDP probe and first egress
\* request followed.
SecondAttemptProbed ==
    /\ Len(log) = 2
    /\ ~log[1].tcp
    /\ log[2].tcp
    /\ log[2].udp = "failed"
    /\ log[2].requests = 1
    /\ n_tcp = 2 /\ n_udp = 1 /\ n_http = 1

RECURSIVE Lookups(_)
Lookups(l) ==
    IF l = <<>> THEN <<>>
    ELSE Lookups(SubSeq(l, 1, Len(l) - 1)) \o l[Len(l)].geo

\* C21: a check that returns ok=true has called get_location exactly once,
\* with the trimmed body of the first HTTP 200 answer (which is the egress IP
\* it reports); a check that returns ok=false has never called it, and no
\* call is made before the first HTTP 200.
OneLookupPerSuccess ==
    /\ n_geo = Len(Lookups(log))
    /\ (Returned /\ result.ok) =>
          /\ n_geo = 1
          /\ Len(LastAttempt.geo) = 1
          /\ LastAttempt.egress = LastAttempt.requests
          /\ IsTrimOf(LastAttempt.geo[1].ip, LastAttempt.body)
          /\ LastAttempt.geo[1].ip = result.ip
    /\ (Returned /\ ~result.ok) => n_geo = 0
    /\ ~Returned => n_geo = 0

\* Reached: four endpoints failed, the fifth answered 200 with a body ending
\* in whitespace, and the one lookup was made for the trimmed body.
LookupAfterFourFailures ==
    /\ Returned
    /\ result.ok
    /\ n_http = NumEndpoints
    /\ n_geo = 1
    /\ LastAttempt.body = <<"7", " ">>
    /\ LastAttempt.geo[1].ip = <<"7">>

\* ==========================================================================
\* Properties of a batch (specification SpecBatch)
\* ==========================================================================
Positions(kind) == {k \in 1..Len(signals) : signals[k].sig = kind}

ResultPositions(i) == {k \in Positions("result") : signals[k].idx = i}

\* process_proxy(i, ...) is past its result_signal.emit.
PastResult(i) ==
    item_pc[i] \in {"lock", "load", "increment", "read_current", "unlock",
                    "emit_progress", "done"}

Total == Cardinality(Indices)

\* C3: result_signal is emitted exactly once for every index of the batch,
\* whatever the outcome of its line, and the result carries the line submitted
\* at that index.
OneResultPerIndex ==
    /\ \A i \in Indices :
          Cardinality(ResultPositions(i)) = IF PastResult(i) THEN 1 ELSE 0
    /\ \A k \in Positions("result") :
          /\ signals[k].idx \in Indices
          /\ signals[k].res.proxy = proxies[signals[k].idx]
    /\ run_pc = "returned" =>
          \A i \in Indices : Cardinality(ResultPositions(i)) = 1

\* Reached: a full batch has returned, index 1 reported before index 0, one
\* line a format error and one a success.
ResultsOutOfOrder ==
    /\ run_pc = "returned"
    /\ Total = NumLines
    /\ \E j, k \in Positions("result") :
          /\ j < k
          /\ signals[j].idx > signals[k].idx
          /\ signals[j].res.error = "format error"
          /\ signals[k].res.ok

\* C4: the values emitted on progress_signal are non-decreasing in emission
\* order, and the last one emitted, once all items completed, is the total.
ProgressNonDecreasingEndsAtTotal ==
    /\ \A j, k \in Positions("progress") :
          j < k => signals[j].value <= signals[k].value
    /\ run_pc = "returned" =>
          \E k \in Positions("progress") :
              /\ \A j \in Positions("progress") : j <= k
              /\ signals[k].value = Total

\* C5: run returns and finished is emitted (and check_finished called) once
\* per batch, and only after every item emitted its result and its progress
\* value, whether the items succeeded or failed.
FinishedOnceAfterAll ==
    /\ Cardinality(Positions("finished")) = IF run_pc = "returned" THEN 1 ELSE 0
    /\ \A p \in Positions("finished") :
          /\ p = Len(signals)
          /\ \A i \in Indices : Cardinality(ResultPositions(i)) = 1
          /\ Cardinality(Positions("progress")) = Total
    /\ run_pc = "returned" => \A i \in Indices : item_pc[i] = "done"
    /\ finished_shown <= 1
    /\ finished_shown = 1 => delivered = Len(signals) /\ button_enabled

\* Reached: check_finished has run for a full batch in which one item failed
\* and another succeeded.
FinishedAfterMixedBatch ==
    /\ finished_shown = 1
    /\ Total = NumLines
    /\ \E i, j \in Indices : item_result[i].ok /\ ~item_result[j].ok
    /\ Len(results) = Total

\* process_proxy(i, ...) has stored its increment of self.progress_count.
PastIncrement(i) ==
    item_pc[i] \in {"read_current", "unlock", "emit_progress", "done"}

ProgressValues == {signals[k].value : k \in Positions("progress")}

\* C20: the counter loses no update, whatever the interleaving of the pool
\* threads: progress_count is the number of items that have incremented it,
\* no value is emitted twice on progress_signal, and once run has returned
\* progress_count is the total and the values emitted are each of 1..total
\* exactly once.
NoLostProgressUpdate ==
    /\ progress_count = Cardinality({i \in Indices : PastIncrement(i)})
    /\ \A j, k \in Positions("progress") :
          j # k => signals[j].value # signals[k].value
    /\ ProgressValues \subseteq 1..progress_count
    /\ run_pc = "returned" =>
          /\ progress_count = Total
          /\ Cardinality(Positions("progress")) = Total
          /\ ProgressValues = 1..Total

\* Reached: a full batch has returned whose threads emitted their progress
\* values in another order than they incremented the counter.
AllValuesOnceOutOfOrder ==
    /\ run_pc = "returned"
    /\ Total = NumLines
    /\ progress_count = NumLines
    /\ \E j, k \in Positions("progress") :
          j < k /\ signals[j].value > signals[k].value

\* process_proxy(i, ...) is past its call of check_socks5.
PastCheck(i) == item_pc[i] = "emit_result" \/ PastResult(i)

\* What check_socks5 can return for a line, over everything the network may
\* answer to the probes made for that line.
PossibleResults(line) ==
    {check_socks5(line, reader, script) : script \in BatchScripts}

\* C14: the result of item i depends on line i and on the answers to item i's
\* own probes only: whatever the other items of the batch are and however
\* they end, the result check_socks5 returned to item i is one of the results
\* line i has on its own, no step of any item changes it afterwards, it is
\* the result emitted for index i, and the only thing an item ever waits for
\* in another item is the mutex, whose holder is between lock and unlock with
\* no network operation left to do.
ItemsAreIndependent ==
    /\ [](\A i \in Indices :
            /\ item_pc[i] = "emit_result" =>
                  item_result[i] \in PossibleResults(proxies[i])
            /\ ~PastCheck(i) => item_result[i] = NoResult)
    /\ [][\A i \in Indices :
            PastCheck(i) => item_result'[i] = item_result[i]]_vars
    /\ [](\A k \in Positions("result") :
            signals[k].res = item_result[signals[k].idx])
    /\ [](mutex # MutexFree =>
            /\ mutex \in Indices
            /\ item_pc[mutex] \in {"load", "increment", "read_current",
                                   "unlock"})
    /\ [](run_pc = "returned" => \A i \in Indices : PastCheck(i))

\* Reached: in one batch a malformed line and a usable proxy; the format
\* error was emitted first and the success of the other item was displayed
\* all the same.
SuccessBesideFormatError ==
    /\ Total = NumLines
    /\ \E i, j \in Indices :
          /\ proxies[i] # proxies[j]
          /\ item_result[j].error = "format error"
          /\ item_result[i].ok
          /\ \E m, n \in Positions("result") :
                m < n /\ signals[m].idx = j /\ signals[n].idx = i
    /\ Len(results) = Total

\* The result signals emitted before position k of the signal sequence.
ResultsBefore(k) == {j \in Positions("result") : j < k}

\* C28: every item emits its result before it increments the counter, so the
\* progress counter, and every value emitted on progress_signal, is at most
\* the number of results emitted before it.
ProgressNeverAheadOfResults ==
    /\ \A i \in Indices : PastIncrement(i) => ResultPositions(i) # {}
    /\ progress_count <= Cardinality(Positions("result"))
    /\ \A k \in Positions("progress") :
          signals[k].value <= Cardinality(ResultsBefore(k))

\* Reached: the whole batch is counted, and one progress value was emitted
\* when exactly that many results had been emitted and another item had not
\* emitted its result yet.
ProgressLevelWithResults ==
    /\ progress_count = Total
    /\ \E k \in Positions("progress") :
          /\ signals[k].value = Cardinality(ResultsBefore(k))
          /\ Cardinality(ResultsBefore(k)) < Total

\* ==========================================================================
\* Properties of repeated checks (specification SpecRerun)
\* ==========================================================================
WithoutLatency(res) == [res EXCEPT !.latency = <<>>]

Started(i) == item_pc[i] \notin {"new", "queued"}

\* What has been done of the batch: statements of run, items started, items
\* finished.
PoolProgress ==
    (IF run_pc = "init" THEN 0 ELSE IF run_pc = "returned" THEN 2 ELSE 1)
    + submitted
    + Cardinality({i \in Indices : Started(i)})
    + Cardinality({i \in Indices : item_pc[i] = "done"})

\* C16: at every moment at most max_workers items are being checked, whatever
\* the size of the batch; and every item of the batch gets started: as long
\* as an item is not started (or not finished, or run has not returned) some
\* step can be taken, and every step taken advances the batch, so that only
\* finitely many are taken before all items have been started.
PoolWidthAndEveryItemStarted ==
    /\ [](Cardinality(Running) <= max_workers)
    /\ [](\/ ENABLED (RunStart \/ Submit \/ RunReturn)
          \/ \E i \in Indices : ENABLED StartItem(i)
          \/ \E i \in Indices : CanProcess(i)
          \/ (/\ run_pc = "returned"
              /\ \A i \in Indices : Started(i) /\ item_pc[i] = "done"))
    /\ [][PoolProgress' > PoolProgress]_vars

\* Reached: the batch is larger than the pool, max_workers items are being
\* checked and a submitted item waits for a thread.
PoolSaturated ==
    /\ Total > max_workers
    /\ Cardinality(Running) = max_workers
    /\ \E i \in Indices : item_pc[i] = "queued"

\* ==========================================================================
\* Properties of the UDP probe (specification SpecUdp)
\* ==========================================================================
UdpReturned == udp_ret # <<>>

UdpResult == udp_ret[1]

\* Both user and pwd were given and are not empty.
CredentialsPresent == udp_call.user # <<>> /\ udp_call.pwd # <<>>

\* sock.connect succeeded.
UdpConnected == IsIntLiteral(udp_call.port) /\ udp_call.sv.connect = "ok"

\* C22: the first message the probe sends on the connection is the method
\* selection, 05 02 00 02 when credentials are present and 05 01 00 when
\* they are not, and it is sent whenever the connection is made.
MethodSelectionFirst ==
    UdpReturned =>
        /\ UdpConnected <=> UdpResult.sent # <<>>
        /\ UdpResult.sent # <<>> =>
              UdpResult.sent[1] = IF CredentialsPresent THEN <<5, 2, 0, 2>>
                                  ELSE <<5, 1, 0>>

\* Reached: a user name without a password: only no-auth was offered, and
\* the proxy's demand for username/password ended the probe.
UserWithoutPasswordOffersNoAuth ==
    /\ UdpReturned
    /\ udp_call.user # <<>>
    /\ udp_call.pwd = <<>>
    /\ udp_call.sv.method = Recv(<<5, 2>>)
    /\ UdpResult.sent = << <<5, 1, 0>> >>
    /\ UdpResult.msg = "username/password required"

\* The proxy's answer to the method selection was read.
MethodReplyRead == UdpConnected /\ udp_call.sv.method.exc = "none"

MethodReply == udp_call.sv.method.data

\* The UDP ASSOCIATE request is among the messages sent.
AssociateSent ==
    \E k \in 1..Len(UdpResult.sent) : UdpResult.sent[k] = udp_request

\* C23: the probe fails, sending nothing after the method selection, when
\* the method reply is not exactly two bytes or does not start with 0x05,
\* and when the chosen method is neither 0x00 nor 0x02; and it goes on to
\* UDP ASSOCIATE without authenticating only when the chosen method is 0x00.
BadMethodReplyFails ==
    (UdpReturned /\ MethodReplyRead) =>
        /\ (Len(MethodReply) # 2 \/ MethodReply[1] # 5) =>
              ~UdpResult.ok /\ Len(UdpResult.sent) = 1
        /\ (Len(MethodReply) = 2 /\ MethodReply[1] = 5
                /\ MethodReply[2] \notin {0, 2}) =>
              ~UdpResult.ok /\ Len(UdpResult.sent) = 1
        /\ (Len(UdpResult.sent) = 2 /\ AssociateSent) =>
              /\ Len(MethodReply) = 2
              /\ MethodReply[1] = 5
              /\ MethodReply[2] = 0

\* Reached: a SOCKS4-style reply 04 00 ended the probe after the method
\* selection although the proxy would have accepted the association.
Version4ReplyRejected ==
    /\ UdpReturned
    /\ MethodReplyRead
    /\ MethodReply = <<4, 0>>
    /\ udp_call.sv.assoc = Recv(AssocReply(0))
    /\ ~UdpResult.ok
    /\ UdpResult.msg = "SOCKS5 handshake failed"
    /\ Len(UdpResult.sent) = 1

\* The server chose no-auth; or it chose username/password, credentials were
\* present, the auth request was sent and answered by two bytes with status
\* 0x00.
NegotiationSucceeded ==
    /\ MethodReplyRead
    /\ Len(MethodReply) = 2
    /\ MethodReply[1] = 5
    /\ \/ MethodReply[2] = 0
       \/ /\ MethodReply[2] = 2
          /\ CredentialsPresent
          /\ Len(UdpResult.sent) >= 2
          /\ UdpResult.sent[2] = <<1, 1, 97, 1, 49>>
          /\ udp_call.sv.auth.exc = "none"
          /\ Len(udp_call.sv.auth.data) = 2
          /\ udp_call.sv.auth.data[2] = 0

\* C24: the UDP ASSOCIATE request is sent exactly when method negotiation has
\* succeeded, as the last message and once; in every other case the probe
\* returns failure without having sent it.
AssociateOnlyAfterNegotiation ==
    UdpReturned =>
        /\ AssociateSent <=> NegotiationSucceeded
        /\ AssociateSent =>
              /\ UdpResult.sent[Len(UdpResult.sent)] = udp_request
              /\ \A k \in 1..(Len(UdpResult.sent) - 1) :
                    UdpResult.sent[k] # udp_request
        /\ ~NegotiationSucceeded => ~UdpResult.ok

\* Reached: the proxy chose username/password, accepted user "a" with
\* password "1", and confirmed the association.
AssociateAfterAuthentication ==
    /\ UdpReturned
    /\ UdpResult.ok
    /\ MethodReply = <<5, 2>>
    /\ UdpResult.sent =
          << <<5, 2, 0, 2>>, <<1, 1, 97, 1, 49>>, udp_request >>

\* The UDP ASSOCIATE request was sent and its reply was read without an
\* exception.
AssocReplyRead ==
    /\ AssociateSent
    /\ udp_call.sv.assoc.exc = "none"

AssocReplyData == udp_call.sv.assoc.data

MalformedAssocReply ==
    AssocReplyRead /\ (Len(AssocReplyData) < 6 \/ AssocReplyData[1] # 5)

\* C25: a malformed UDP ASSOCIATE reply (shorter than six bytes, or first
\* byte not 0x05) gives udpOk = false with the same "invalid response"
\* message in both cases.
MalformedReplySameMessage ==
    (UdpReturned /\ MalformedAssocReply) =>
        /\ ~UdpResult.ok
        /\ UdpResult.msg = "invalid SOCKS5 response"

\* C25 (amended): a malformed UDP ASSOCIATE reply gives udpOk = false and the
\* probe returns; a reply shorter than six bytes is reported as too short,
\* a reply of six bytes or more with another first byte as an invalid
\* SOCKS5 response.
MalformedReplyFailsWithItsMessage ==
    (UdpReturned /\ MalformedAssocReply) =>
        /\ ~UdpResult.ok
        /\ UdpResult.closed
        /\ Len(AssocReplyData) < 6 =>
              UdpResult.msg = "UDP ASSOCIATE response too short"
        /\ Len(AssocReplyData) >= 6 =>
              UdpResult.msg = "invalid SOCKS5 response"

\* Reached: the proxy answered the UDP ASSOCIATE request with the four bytes
\* 05 00 00 01 and the probe returned.
FourByteAssocReply ==
    /\ UdpReturned
    /\ AssocReplyRead
    /\ AssocReplyData = <<5, 0, 0, 1>>

\* The eight reasons RFC 1928 names for the reply codes 0x01..0x08.
CanonicalReason ==
    << "general SOCKS server failure", "connection not allowed",
       "network unreachable", "host unreachable", "connection refused",
       "TTL expired", "command not supported", "address type not supported" >>

WellFormedAssocReply ==
    AssocReplyRead /\ Len(AssocReplyData) >= 6 /\ AssocReplyData[1] = 5

ReplyCode == AssocReplyData[2]

\* C26: for a well-formed UDP ASSOCIATE reply the result depends on the reply
\* code byte alone: 0x00 gives success; each of 0x01..0x08 gives failure with
\* its own reason, different from the reason of every other code; every other
\* code n gives failure with "unknown error code: n".
ReplyCodeDecides ==
    (UdpReturned /\ WellFormedAssocReply) =>
        /\ UdpResult.ok <=> ReplyCode = 0
        /\ ReplyCode = 0 => UdpResult.msg = "UDP proxy support confirmed"
        /\ ReplyCode \in 1..8 =>
              /\ UdpResult.msg =
                    "UDP ASSOCIATE failed: " \o CanonicalReason[ReplyCode]
              /\ \A c \in 1..8 :
                    c # ReplyCode =>
                        UdpResult.msg #
                            "UDP ASSOCIATE failed: " \o CanonicalReason[c]
        /\ ReplyCode \notin 0..8 =>
              UdpResult.msg = "UDP ASSOCIATE failed: unknown error code: "
                                  \o ToString(ReplyCode)

\* Reached: the proxy answered the UDP ASSOCIATE request with reply code 255.
UnknownReplyCode ==
    /\ UdpReturned
    /\ WellFormedAssocReply
    /\ ReplyCode = 255
    /\ UdpResult.msg = "UDP ASSOCIATE failed: unknown error code: 255"

\* The username/password request was sent.
AuthRequestSent ==
    Len(UdpResult.sent) >= 2 /\ UdpResult.sent[2] # udp_request

\* The exception of kind e is raised by a step the probe reaches: by
\* sock.connect, or by the recv that follows a message the probe has sent.
ProbeHits(e) ==
    \/ IsIntLiteral(udp_call.port) /\ udp_call.sv.connect = e
    \/ UdpConnected /\ udp_call.sv.method.exc = e
    \/ AuthRequestSent /\ udp_call.sv.auth.exc = e
    \/ AssociateSent /\ udp_call.sv.assoc.exc = e

\* C27: a timeout at the connect step or at any read step gives udpOk = false
\* with the timeout message, a refused connection gives udpOk = false with the
\* refusal message, and every other exception (a port that is no number, an
\* error while reading) gives a udpOk = false result as well: the probe
\* always returns a result to the retry loop.
ExceptionsBecomeResults ==
    UdpReturned =>
        /\ ProbeHits("timeout") =>
              ~UdpResult.ok /\ UdpResult.msg = "UDP detection timeout"
        /\ ProbeHits("refused") =>
              ~UdpResult.ok /\ UdpResult.msg = "connection refused"
        /\ ProbeHits("error") =>
              /\ ~UdpResult.ok
              /\ UdpResult.msg = "UDP detection exception: error"
        /\ ~IsIntLiteral(udp_call.port) =>
              /\ ~UdpResult.ok
              /\ UdpResult.msg =
                    "UDP detection exception: invalid literal for int()"

\* Reached: the proxy asked for username/password and never answered the
\* credentials; the read timed out after two messages.
TimeoutAtAuthRead ==
    /\ UdpReturned
    /\ AuthRequestSent
    /\ udp_call.sv.auth.exc = "timeout"
    /\ ~UdpResult.ok
    /\ Len(UdpResult.sent) = 2

\* C29: the probe closes the control connection it opened before it returns,
\* on every outcome: success, every handshake failure, and every exception
\* raised after the connection was established.
ConnectionClosedOnReturn ==
    (UdpReturned /\ UdpConnected) => UdpResult.closed


\* ==========================================================================
\* Properties of the main window (specification SpecWindow)
\* ==========================================================================
\* C30: when check_finished runs for a batch of N lines, self.results holds
\* exactly N entries, whatever the user did while the batch ran.
ResultsCompleteWhenFinished ==
    finished_shown = 1 => Len(results) = Total

====
